---- MODULE Spec2Model ----
(***************************************************************************)
(* RFID2: read / write / clone / erase of MIFARE Classic and MIFARE        *)
(* Ultralight tags through an MFRC522 reader controller                    *)
(* (src/src/modules/rfid/RFID2.cpp).                                       *)
(*                                                                         *)
(* The session object's fields are the state.  The tag in the field and    *)
(* the reader controller are the environment: a tag is a record saying how *)
(* it answers each transport call.  Every transport call an operation      *)
(* makes is appended to log.                                               *)
(***************************************************************************)
EXTENDS Integers, Sequences, FiniteSets, TLC

VARIABLES
    pc,               \* "idle", or "ul_read" inside the Ultralight read loop
    tag,              \* the tag in the reader's field (environment)
    ops,              \* the operations called on the object so far
    uid,              \* RFID2::uid (sak, uidByte[0..size-1])
    printableUID,     \* RFID2::printableUID (picc_type, uid, sak, bcc, atqa)
    dataPages,
    totalPages,
    pageReadStatus,
    pageReadSuccess,
    strAllPages,      \* the page lines "Page <index>: <hex bytes>", in order
    page,             \* loop variable of read_mifare_ultralight_data_blocks
    lastOp,           \* the operation called last
    arg,              \* its argument (block, sector, message size), else -1
    result,           \* what it returned ("none" while it has not returned)
    log,              \* the transport calls it made, in order
    pre,              \* strAllPages and dataPages as the operation found them
    files,            \* the files of /BruceRFID: name (without .rfid) -> lines
    saved             \* for each file written by save(), the dump it was given

vars == <<pc, tag, ops, uid, printableUID, dataPages, totalPages,
          pageReadStatus, pageReadSuccess, strAllPages, page, lastOp, arg,
          result, log, pre,
         files, saved>>

storage == <<files, saved>>

session == <<uid, printableUID, dataPages, totalPages, pageReadStatus,
             pageReadSuccess, strAllPages>>

-----------------------------------------------------------------------------
(* Bounds of the model.                                                    *)

\* The Ultralight read loop is followed for at most this many burst reads.
MaxBursts == 66

\* read_mifare_classic_data_sector is called with sectors 0..MaxSector.
MaxSector == 42

\* An object is followed for at most this many operations.
MaxOps == 2

-----------------------------------------------------------------------------
(* Program constants.                                                      *)

NumKeys_50 == 50
NumKeys == 80
NumSectors4K == 40

Byte(n) == n % 256

\* uint8_t dict_keys[80][6]: 78 initialisers, the remaining two rows are
\* zero-initialised.
dict_keys ==
   <<
      <<255,255,255,255,255,255>>, <<160,161,162,163,164,165>>, <<176,177,178,179,180,181>>,
      <<77,58,153,195,81,221>>, <<26,152,44,126,69,154>>, <<170,187,204,221,238,255>>,
      <<113,76,92,136,110,151>>, <<88,126,229,249,53,15>>, <<160,71,140,195,144,145>>,
      <<83,60,182,199,35,246>>, <<143,208,164,242,86,233>>, <<166,69,152,167,116,120>>,
      <<38,148,11,33,255,93>>, <<252,0,1,135,120,247>>, <<0,0,15,254,36,136>>,
      <<211,247,211,247,211,247>>, <<160,176,192,208,224,240>>, <<161,177,193,209,225,241>>,
      <<18,52,86,120,154,188>>, <<1,2,3,4,5,6>>, <<17,34,51,68,85,102>>,
      <<153,153,153,153,153,153>>, <<119,119,119,119,119,119>>, <<225,16,220,47,16,220>>,
      <<50,161,133,51,34,17>>, <<68,68,68,68,68,68>>, <<136,136,136,136,136,136>>,
      <<4,25,43,39,11,9>>, <<25,112,3,3,25,112>>, <<16,16,16,16,16,16>>,
      <<1,35,69,103,137,171>>, <<65,67,82,49,50,50>>, <<19,87,154,223,38,72>>,
      <<255,0,255,0,255,0>>, <<0,0,0,0,0,0>>, <<20,7,136,20,7,136>>,
      <<32,33,34,35,36,37>>, <<96,97,98,99,100,101>>, <<112,113,114,115,116,117>>,
      <<128,129,130,131,132,133>>, <<144,145,146,147,148,149>>, <<160,177,194,211,228,245>>,
      <<84,67,82,17,34,51>>, <<8,8,8,8,8,8>>, <<75,69,89,71,69,78>>,
      <<171,205,239,18,52,86>>, <<37,130,161,153,119,0>>, <<18,18,18,18,18,18>>,
      <<52,52,52,52,52,52>>, <<86,86,86,86,86,86>>, <<120,120,120,120,120,120>>,
      <<144,144,144,144,144,144>>, <<34,34,34,34,34,34>>, <<51,51,51,51,51,51>>,
      <<68,68,68,68,68,68>>, <<85,85,85,85,85,85>>, <<102,102,102,102,102,102>>,
      <<204,204,204,204,204,204>>, <<238,238,238,238,238,238>>, <<17,17,17,17,17,17>>,
      <<34,51,68,85,102,119>>, <<68,85,102,119,136,153>>, <<1,2,3,4,5,1>>,
      <<161,162,163,164,165,166>>, <<177,178,179,180,181,182>>, <<193,194,195,196,197,198>>,
      <<209,210,211,212,213,214>>, <<16,32,48,64,80,96>>, <<7,7,7,7,7,7>>,
      <<9,9,9,9,9,9>>, <<26,43,60,77,94,111>>, <<111,94,77,60,43,26>>,
      <<170,85,170,85,170,85>>, <<85,170,85,170,85,170>>, <<17,17,34,34,51,51>>,
      <<51,51,34,34,17,17>>, <<77,73,70,65,82,69>>, <<65,66,67,68,69,70>>,
      <<0,0,0,0,0,0>>, <<0,0,0,0,0,0>>
   >>

-----------------------------------------------------------------------------
(* The environment: tags and the reader controller's transport calls.      *)

KeyFF == dict_keys[1]
KeyLast == dict_keys[78]                \* the last row with an initialiser
KeyDup == dict_keys[55]                \* 44 44 44 44 44 44, also row 26
KeyUnknown == <<1,2,3,4,5,7>>          \* in no row of dict_keys

\* A Mifare 4K tag has sectors 0..39: NoSector is no sector of any tag, and
\* NoAddr no address a byte can hold.
NoSector == NumSectors4K
NoAddr == 255 + 1

\* A tag: how it answers.  nblocks is its number of blocks (Classic) or
\* pages (Ultralight); sectors from lockFrom on accept no key the model
\* offers; readFail / writeFail is an address at which the transport call
\* ends with an error other than no-acknowledge.
Tag(sak, nblocks, keyA, keyB, lockFrom, readFail, writeFail, cc, uidb) ==
    [present |-> TRUE, select |-> TRUE, sak |-> sak, atqa |-> <<4, 0>>,
     uidb |-> uidb, nblocks |-> nblocks, keyA |-> keyA, keyB |-> keyB,
     lockFrom |-> lockFrom, readFail |-> readFail, writeFail |-> writeFail,
     cc |-> cc]

Classic1K(keyA, keyB, lockFrom, readFail, writeFail) ==
    Tag(8, 64, keyA, keyB, lockFrom, readFail, writeFail, 0, <<222,173,190,239>>)

Ultralight(npages, cc, readFail, writeFail) ==
    Tag(0, npages, KeyUnknown, KeyUnknown, 0, readFail, writeFail, cc,
        <<4,10,155,77,98,1,128>>)

ClassicTags ==
    { Classic1K(KeyFF, KeyFF, NoSector, NoAddr, NoAddr),
      Classic1K(KeyUnknown, KeyLast, NoSector, NoAddr, NoAddr),
      Classic1K(KeyUnknown, KeyUnknown, NoSector, NoAddr, NoAddr),
      Classic1K(KeyFF, KeyFF, 5, NoAddr, NoAddr),
      Classic1K(KeyFF, KeyFF, NoSector, 6, NoAddr),
      Classic1K(KeyFF, KeyFF, NoSector, NoAddr, 9),
      Tag(9, 20, KeyFF, KeyFF, NoSector, NoAddr, NoAddr, 0, <<1,2,3,4>>),
      Tag(24, 256, KeyFF, KeyFF, NoSector, NoAddr, NoAddr, 0, <<17,34,51,68>>) }

\* More key set-ups, for the calls of authenticate_mifare_classic alone.
AuthTags ==
    ClassicTags \cup
    { Classic1K(KeyUnknown, KeyFF, NoSector, NoAddr, NoAddr),
      Classic1K(KeyDup, KeyUnknown, NoSector, NoAddr, NoAddr),
      Classic1K(KeyUnknown, dict_keys[NumKeys], NoSector, NoAddr, NoAddr),
      Tag(24, 256, KeyUnknown, KeyLast, 36, NoAddr, NoAddr, 0, <<17,34,51,68>>) }

\* npages = 256: every burst read of an 8-bit page address is answered OK.
UltralightTags ==
    { Ultralight(45, 18, NoAddr, NoAddr),
      Ultralight(135, 62, NoAddr, NoAddr),
      Ultralight(231, 109, NoAddr, NoAddr),
      Ultralight(16, 0, NoAddr, NoAddr),
      Ultralight(45, 18, 8, NoAddr),
      Ultralight(45, 18, NoAddr, 6),
      Ultralight(256, 0, NoAddr, NoAddr) }

OtherTags ==
    { Tag(32, 0, KeyUnknown, KeyUnknown, 0, NoAddr, NoAddr, 0, <<8,1,2,3>>) }

\* No tag answers the request; a tag answers the request but not the select.
NoTag == [Ultralight(0, 0, NoAddr, NoAddr) EXCEPT !.present = FALSE, !.select = FALSE]
Unselectable == [Classic1K(KeyFF, KeyFF, NoSector, NoAddr, NoAddr) EXCEPT !.select = FALSE]

Tags == ClassicTags \cup UltralightTags \cup OtherTags \cup {NoTag, Unselectable}

\* MFRC522::PICC_GetType(sak)
PICC_GetType(sak) ==
    LET s == sak % 128
    IN CASE s = 9 -> "MIFARE_MINI"
         [] s = 8 -> "MIFARE_1K"
         [] s = 24 -> "MIFARE_4K"
         [] s = 0 -> "MIFARE_UL"
         [] s = 32 -> "ISO_14443_4"
         [] OTHER -> "UNKNOWN"

IsClassic(piccType) == piccType \in {"MIFARE_MINI", "MIFARE_1K", "MIFARE_4K"}

\* The sector of the tag's memory that block address addr lies in.
TagSector(addr) == IF addr < 128 THEN addr \div 4 ELSE 32 + (addr - 128) \div 16

\* mfrc522.PCD_Authenticate(keyType, blockAddr, key, uid): the tag accepts
\* the key of that type of the sector blockAddr lies in.
PCD_Authenticate(t, keyType, blockAddr, key) ==
    IF /\ IsClassic(PICC_GetType(t.sak))
       /\ blockAddr < t.nblocks
       /\ TagSector(blockAddr) < t.lockFrom
       /\ key = (IF keyType = "A" THEN t.keyA ELSE t.keyB)
    THEN "OK" ELSE "TIMEOUT"

\* The 16 bytes of block addr of a Classic tag.
BlockData(t, addr) == [i \in 1..16 |-> (addr + t.uidb[1] + i) % 256]

\* The 4 bytes of page p of an Ultralight tag; page 3 holds the capability
\* container, its byte at offset 2 the memory size.
PageData(t, p) ==
    IF p = 3 THEN <<225, 16, t.cc, 0>> ELSE [i \in 1..4 |-> (p + i) % 256]

\* mfrc522.MIFARE_Read(blockAddr, ...) on a Classic tag: answered inside the
\* sector the Crypto1 session was opened for.
MIFARE_Read_Classic(t, auth, addr) ==
    IF addr = t.readFail THEN "ERROR"
    ELSE IF addr < t.nblocks /\ auth = TagSector(addr) THEN "OK"
    ELSE "TIMEOUT"

\* mfrc522.MIFARE_Read(page, ...) on an Ultralight tag: a page address
\* beyond the memory is answered with no-acknowledge.
MIFARE_Read_UL(t, p) ==
    IF p = t.readFail THEN "ERROR"
    ELSE IF p < t.nblocks THEN "OK"
    ELSE "MIFARE_NACK"

\* The 16 bytes a burst read at page p returns: pages p..p+3, rolling over
\* to page 0 at the end of the memory.
BurstData(t, p) ==
    [i \in 1..16 |-> PageData(t, (p + (i - 1) \div 4) % t.nblocks)[((i - 1) % 4) + 1]]

\* mfrc522.MIFARE_Write(blockAddr, buffer, 16)
MIFARE_Write(t, auth, addr, size) ==
    IF size < 16 THEN "INVALID"
    ELSE IF addr = t.writeFail THEN "ERROR"
    ELSE IF addr < t.nblocks /\ auth = TagSector(addr) THEN "OK"
    ELSE "TIMEOUT"

\* mfrc522.MIFARE_Ultralight_Write(page, buffer, 4)
MIFARE_Ultralight_Write(t, p, size) ==
    IF size < 4 THEN "INVALID"
    ELSE IF p = t.writeFail THEN "ERROR"
    ELSE IF PICC_GetType(t.sak) = "MIFARE_UL" /\ p < t.nblocks THEN "OK"
    ELSE "MIFARE_NACK"

\* MFRC522Hack::MIFARE_SetUid(uid, size, key, true): the unlock-write of
\* block 0, after an authentication of sector 0 with key as Key A.
MIFARE_SetUid(t, key) ==
    /\ PCD_Authenticate(t, "A", 1, key) = "OK"
    /\ t.writeFail = NoAddr

\* One entry of log.
Call(op, addr, st, n) == [op |-> op, addr |-> addr, st |-> st, n |-> n]

-----------------------------------------------------------------------------
(* RFID2::authenticate_mifare_classic                                      *)

\* The k-th transport call of the loop over dict_keys (k from 1): row
\* (k-1) \div 2 of the table (rows are numbered from 0 in the code), as
\* Key A for an odd k and as Key B for an even k.
AuthAttempt(t, trailerBlock, k) ==
    LET i == (k - 1) \div 2
        keyType == IF k % 2 = 1 THEN "A" ELSE "B"
    IN Call(IF keyType = "A" THEN "AUTH_KEY_A" ELSE "AUTH_KEY_B", trailerBlock,
            PCD_Authenticate(t, keyType, trailerBlock, dict_keys[i + 1]), i)

\* As AuthFirstOk, with the check of the status left out after Key B.
AuthFirstOk_KeyAOnly(t, trailerBlock) ==
    LET Ok(k) == k % 2 = 1 /\ AuthAttempt(t, trailerBlock, k).st = "OK"
    IN IF \E k \in 1..(2 * NumKeys) : Ok(k)
       THEN CHOOSE k \in 1..(2 * NumKeys) : Ok(k) /\ \A j \in 1..(k - 1) : ~Ok(j)
       ELSE 0

\* The loop "for (i = 0; i < 80; i++)" returns SUCCESS from its first call
\* that the tag answers with OK: the number of that call, 0 when the loop
\* runs to its end.
AuthFirstOk(t, trailerBlock) ==
    LET Ok(k) == AuthAttempt(t, trailerBlock, k).st = "OK"
    IN IF \E k \in 1..(2 * NumKeys) : Ok(k)
       THEN CHOOSE k \in 1..(2 * NumKeys) : Ok(k) /\ \A j \in 1..(k - 1) : ~Ok(j)
       ELSE 0

authenticate_trailer(block) == Byte((block \div 4) * 4 + 3)

authenticate_mifare_classic(t, block) ==
    LET trailerBlock == authenticate_trailer(block)
        first == AuthFirstOk(t, trailerBlock)
        calls == IF first = 0 THEN 2 * NumKeys ELSE first
    IN [status |-> IF first = 0 THEN "TAG_AUTH_ERROR" ELSE "SUCCESS",
        attempts |-> [k \in 1..calls |-> AuthAttempt(t, trailerBlock, k)]]

\* The sector whose Crypto1 session is open after an authenticate call.
AuthSector(a) ==
    IF a.status = "SUCCESS" THEN TagSector(a.attempts[Len(a.attempts)].addr)
    ELSE NoSector

\* The authenticate call as one entry of an operation's log.
AuthCall(a) ==
    Call("authenticate", a.attempts[1].addr, a.status, Len(a.attempts))


-----------------------------------------------------------------------------
(* Arduino String helpers, texts being sequences of characters.            *)

HexDigits == <<"0","1","2","3","4","5","6","7","8","9","a","b","c","d","e","f">>

\* String(b, HEX): lower case, no leading zero.
StringHex(b) ==
    IF b < 16 THEN <<HexDigits[b + 1]>>
    ELSE <<HexDigits[(b \div 16) + 1], HexDigits[(b % 16) + 1]>>

ToUpperChar(c) ==
    CASE c = "a" -> "A" [] c = "b" -> "B" [] c = "c" -> "C"
      [] c = "d" -> "D" [] c = "e" -> "E" [] c = "f" -> "F"
      [] OTHER -> c

toUpperCase(str) == [i \in 1..Len(str) |-> ToUpperChar(str[i])]

\* The characters String::trim() removes at both ends.
IsSpace(c) == c \in {" ", "\t", "\n", "\r"}

RECURSIVE trimLeft(_)
trimLeft(str) ==
    IF Len(str) > 0 /\ IsSpace(Head(str)) THEN trimLeft(Tail(str)) ELSE str

RECURSIVE trimRight(_)
trimRight(str) ==
    IF Len(str) > 0 /\ IsSpace(str[Len(str)])
    THEN trimRight(SubSeq(str, 1, Len(str) - 1)) ELSE str

trim(str) == trimRight(trimLeft(str))

\* String::substring(left, right): the characters left..right-1 (from 0),
\* right cut to the length.
substring(str, left, right) ==
    LET r == IF right > Len(str) THEN Len(str) ELSE right
    IN IF left >= r THEN <<>> ELSE SubSeq(str, left + 1, r)

\* The loop "str += b < 0x10 ? " 0" : " "; str += String(b, HEX)" over the
\* bytes, then trim() and toUpperCase().
RECURSIVE HexLoop(_, _)
HexLoop(bytes, str) ==
    IF bytes = <<>> THEN str
    ELSE HexLoop(Tail(bytes),
                 str \o (IF Head(bytes) < 16 THEN <<" ", "0">> ELSE <<" ">>)
                     \o StringHex(Head(bytes)))

HexText(bytes) == toUpperCase(trim(HexLoop(bytes, <<>>)))

\* a ^ b on bytes.
RECURSIVE Xor(_, _)
Xor(a, b) ==
    IF a = 0 /\ b = 0 THEN 0
    ELSE ((a + b) % 2) + 2 * Xor(a \div 2, b \div 2)

RECURSIVE XorAll(_, _)
XorAll(bytes, bcc) ==
    IF bytes = <<>> THEN bcc ELSE XorAll(Tail(bytes), Xor(bcc, Head(bytes)))

-----------------------------------------------------------------------------
(* The session after construction.                                         *)

\* uid is not initialised by the constructor: its sak is any byte.
InitSaks == {0, 255}

InitSession ==
    /\ pc = "idle"
    /\ ops = 0
    /\ uid \in [sak : InitSaks, uidByte : {<<>>}]
    /\ printableUID = [picc_type |-> "", uid |-> <<>>, sak |-> <<>>,
                       bcc |-> <<>>, atqa |-> <<>>]
    /\ dataPages = 0
    /\ totalPages = 0
    /\ pageReadStatus = "FAILURE"
    /\ pageReadSuccess = FALSE
    /\ strAllPages = <<>>
    /\ page = 0
    /\ lastOp = "none"
    /\ arg = 0 - 1
    /\ result = "none"
    /\ log = <<>>
    /\ pre = [strAllPages |-> <<>>, dataPages |-> 0]

\* The user puts tag t into the field.
Present(t) ==
    /\ pc = "idle"
    /\ ops < MaxOps
    /\ tag' = t
    /\ lastOp' = "none"
    /\ arg' = 0 - 1
    /\ result' = "none"
    /\ log' = <<>>
    /\ pre' = [strAllPages |-> strAllPages, dataPages |-> dataPages]
    /\ UNCHANGED <<pc, ops, page>>
    /\ UNCHANGED storage
    /\ UNCHANGED session

-----------------------------------------------------------------------------
(* Loops that leave at the first failed step.                              *)

\* The element of a singleton set.  { F(x) : x \in {e} } is F(e) with e
\* evaluated once.
The(S) == CHOOSE x \in S : TRUE

\* The concatenation of seqs[lo], ..., seqs[hi].
RECURSIVE Flatten(_, _, _)
Flatten(seqs, lo, hi) ==
    IF lo > hi THEN <<>>
    ELSE IF lo = hi THEN seqs[lo]
    ELSE The({ Flatten(seqs, lo, mid) \o Flatten(seqs, mid + 1, hi) :
                 mid \in {(lo + hi) \div 2} })

\* The first index at which the sequence of booleans oks is FALSE,
\* Len(oks) + 1 if there is none.
FirstNot(oks) ==
    IF \E k \in 1..Len(oks) : ~oks[k]
    THEN CHOOSE k \in 1..Len(oks) : ~oks[k] /\ \A j \in 1..(k - 1) : oks[j]
    ELSE Len(oks) + 1

Min(a, b) == IF a < b THEN a ELSE b

\* A line "Page <index>: <hex bytes>" of strAllPages.
PageLine(index, bytes) == [index |-> index, bytes |-> bytes]

\* "strAllPages += "Page " + String(dataPages) + ...; dataPages++" for each
\* of datas in turn, dataPages being dp before the first.
AppendPages(lines, dp, datas) ==
    lines \o [k \in 1..Len(datas) |-> PageLine(dp + k - 1, datas[k])]

Halt == Call("PICC_HaltA", NoAddr, "OK", 0)
StopCrypto1 == Call("PCD_StopCrypto1", NoAddr, "OK", 0)

-----------------------------------------------------------------------------
(* RFID2::read_mifare_classic_data_sector                                  *)

\* Variant: the trailer block of a sector is left out of the block loop.
SectorLayout_NoTrailer(sector) ==
    IF sector < 32 THEN [no_of_blocks |-> 3, firstBlock |-> Byte(sector * 4)]
    ELSE IF sector < 40
         THEN [no_of_blocks |-> 15, firstBlock |-> Byte(128 + (sector - 32) * 16)]
    ELSE [no_of_blocks |-> 0, firstBlock |-> 0]

\* Variant: every sector is taken to have 4 blocks.
SectorLayout_Small(sector) ==
    IF sector < 40 THEN [no_of_blocks |-> 4, firstBlock |-> Byte(sector * 4)]
    ELSE [no_of_blocks |-> 0, firstBlock |-> 0]

\* no_of_blocks and firstBlock of a sector; no_of_blocks = 0 stands for the
\* "return FAILURE" of a sector number of 40 or more.
SectorLayout(sector) ==
    IF sector < 32 THEN [no_of_blocks |-> 4, firstBlock |-> Byte(sector * 4)]
    ELSE IF sector < 40
         THEN [no_of_blocks |-> 16, firstBlock |-> Byte(128 + (sector - 32) * 16)]
    ELSE [no_of_blocks |-> 0, firstBlock |-> 0]

\* The block loop of a sector after the authentication a: the status
\* returned, the transport calls made and the 16-byte blocks appended to the
\* dump.  The status of the authentication is not looked at.
SectorBlocks(t, lay, a) ==
    LET auth == AuthSector(a)
        reads == [k \in 1..lay.no_of_blocks |->
                     LET blockAddr == Byte(lay.firstBlock + (k - 1))
                     IN Call("MIFARE_Read", blockAddr,
                             MIFARE_Read_Classic(t, auth, blockAddr), 0)]
        bad == FirstNot([k \in 1..lay.no_of_blocks |-> reads[k].st = "OK"])
    IN [status |-> IF bad <= lay.no_of_blocks THEN "FAILURE" ELSE "SUCCESS",
        calls |-> <<AuthCall(a)>> \o SubSeq(reads, 1, Min(bad, lay.no_of_blocks)),
        datas |-> [k \in 1..(bad - 1) |-> BlockData(t, reads[k].addr)]]

read_mifare_classic_data_sector(t, sector) ==
    LET lay == SectorLayout(sector)
    IN IF lay.no_of_blocks = 0
       THEN [status |-> "FAILURE", calls |-> <<>>, datas |-> <<>>]
       ELSE The({ SectorBlocks(t, lay, a) :
                    a \in {authenticate_mifare_classic(t, lay.firstBlock)} })

\* RFID2::read_mifare_classic_data_blocks: no_of_sectors and totalPages by
\* tag type, the loop over the sectors that breaks at the first sector
\* that is not read with SUCCESS, then halt and crypto-stop.
ClassicSize(piccType) ==
    CASE piccType = "MIFARE_MINI" -> [no_of_sectors |-> 5, totalPages |-> 20]
      [] piccType = "MIFARE_1K" -> [no_of_sectors |-> 16, totalPages |-> 64]
      [] piccType = "MIFARE_4K" -> [no_of_sectors |-> 40, totalPages |-> 256]
      [] OTHER -> [no_of_sectors |-> 0, totalPages |-> 0]

\* What each pass of the loop would return, for sectors 0..no_of_sectors-1.
SectorResults(t, no_of_sectors) ==
    SubSeq([k \in 1..no_of_sectors |-> read_mifare_classic_data_sector(t, k - 1)],
           1, no_of_sectors)

\* The number of passes made: up to the first one that fails.
SectorsDone(sectors) ==
    Min(FirstNot([k \in 1..Len(sectors) |-> sectors[k].status = "SUCCESS"]),
        Len(sectors))

SectorLoop(size, sectors, done) ==
    [status |-> IF done = 0 THEN "FAILURE" ELSE sectors[done].status,
     totalPages |-> size.totalPages,
     calls |-> Flatten([k \in 1..Len(sectors) |-> sectors[k].calls], 1, done)
                  \o <<Halt, StopCrypto1>>,
     datas |-> Flatten([k \in 1..Len(sectors) |-> sectors[k].datas], 1, done)]

read_mifare_classic_data_blocks(t, piccType) ==
    LET size == ClassicSize(piccType)
    IN The({ The({ SectorLoop(size, sectors, done) :
                     done \in {SectorsDone(sectors)} }) :
               sectors \in {SectorResults(t, size.no_of_sectors)} })

-----------------------------------------------------------------------------
(* RFID2::read and what it calls.                                          *)

\* MFRC522::PICC_GetTypeName
PICC_GetTypeName(piccType) ==
    CASE piccType = "MIFARE_MINI" -> "MIFARE Mini, 320 bytes"
      [] piccType = "MIFARE_1K" -> "MIFARE 1KB"
      [] piccType = "MIFARE_4K" -> "MIFARE 4KB"
      [] piccType = "MIFARE_UL" -> "MIFARE Ultralight or Ultralight C"
      [] piccType = "ISO_14443_4" -> "PICC compliant with ISO/IEC 14443-4"
      [] OTHER -> "Unknown type"

\* RFID2::get_tag_type
get_tag_type(sak, tp) ==
    LET piccType == PICC_GetType(sak)
    IN IF piccType = "MIFARE_UL" /\ tp = 45 THEN "NTAG213"
       ELSE IF piccType = "MIFARE_UL" /\ tp = 135 THEN "NTAG215"
       ELSE IF piccType = "MIFARE_UL" /\ tp = 231 THEN "NTAG216"
       ELSE PICC_GetTypeName(piccType)

\* RFID2::format_data: the printable UID from mfrc522.uid, the total page
\* count and the ATQA text cached by PICC_IsNewCardPresent.
format_data(m, tp, atqa) ==
    [picc_type |-> get_tag_type(m.sak, tp),
     sak |-> toUpperCase((IF m.sak < 16 THEN <<"0">> ELSE <<>>) \o StringHex(m.sak)),
     uid |-> HexText(m.uidByte),
     bcc |-> LET bcc == XorAll(m.uidByte, 0)
             IN toUpperCase((IF bcc < 16 THEN <<"0">> ELSE <<>>) \o StringHex(bcc)),
     atqa |-> substring(atqa, 3, 5) \o <<" ">> \o substring(atqa, 0, 2)]

\* The tail of read_data_blocks for an Ultralight tag (lines 265-266).
UlDataPages(readStatus, dp) ==
    IF readStatus = "SUCCESS" /\ dp > 0 THEN dp - 1 ELSE dp

UlTotalPages(tp, dp) == IF tp = 0 THEN dp ELSE tp

\* mfrc522.uid after PICC_ReadCardSerial selected tag t.  Every use of it in
\* RFID2 follows a successful select, so it is a value, not kept state.
mfrc522_uid(t) == [sak |-> t.sak, uidByte |-> t.uidb]

\* Variant: read() hands on the status of read_data_blocks.
ReadReturn_Propagate(readStatus, tp, atqa) ==
    /\ pageReadStatus' = readStatus
    /\ pageReadSuccess' = (readStatus = "SUCCESS")
    /\ printableUID' = format_data(mfrc522_uid(tag), tp, atqa)
    /\ uid' = mfrc522_uid(tag)
    /\ result' = readStatus
    /\ pc' = "idle"

\* The end of read(): the read status is latched, the printable UID is
\* formatted, the UID is stored and SUCCESS is returned.
ReadReturn(readStatus, tp, atqa) ==
    /\ pageReadStatus' = readStatus
    /\ pageReadSuccess' = (readStatus = "SUCCESS")
    /\ printableUID' = format_data(mfrc522_uid(tag), tp, atqa)
    /\ uid' = mfrc522_uid(tag)
    /\ result' = "SUCCESS"
    /\ pc' = "idle"

\* RFID2::PICC_IsNewCardPresent: the request, and the ATQA text it caches.
RequestA(t) == Call("PICC_RequestA", NoAddr, IF t.present THEN "OK" ELSE "TIMEOUT", 0)
ReadCardSerial(t) == Call("PICC_ReadCardSerial", NoAddr, IF t.select THEN "OK" ELSE "TIMEOUT", 0)

\* The calls of "!PICC_IsNewCardPresent() || !PICC_ReadCardSerial()".
Detect(t) == IF t.present THEN <<RequestA(t), ReadCardSerial(t)>> ELSE <<RequestA(t)>>
Detected(t) == t.present /\ t.select

\* read(), up to its return or, for an Ultralight tag, up to the loop of
\* read_mifare_ultralight_data_blocks.
Read ==
    /\ pc = "idle"
    /\ ops < MaxOps
    /\ ops' = ops + 1
    /\ UNCHANGED storage
    /\ lastOp' = "read"
    /\ arg' = 0 - 1
    /\ pre' = [strAllPages |-> strAllPages, dataPages |-> dataPages]
    /\ UNCHANGED tag
    /\ LET atqa == IF tag.present THEN HexText(tag.atqa) ELSE printableUID.atqa
           piccType == PICC_GetType(tag.sak)
       IN IF ~Detected(tag)
          THEN /\ pageReadStatus' = "FAILURE"
               /\ printableUID' = [printableUID EXCEPT !.atqa = atqa]
               /\ result' = "TAG_NOT_PRESENT"
               /\ log' = Detect(tag)
               /\ UNCHANGED <<pc, uid, dataPages, totalPages,
                              pageReadSuccess, strAllPages, page>>
          ELSE /\ IF IsClassic(piccType)
                  THEN \E r \in {read_mifare_classic_data_blocks(tag, piccType)} :
                          /\ dataPages' = Len(r.datas)
                          /\ totalPages' = r.totalPages
                          /\ strAllPages' = AppendPages(<<>>, 0, r.datas)
                          /\ log' = Detect(tag) \o r.calls \o <<Halt>>
                          /\ ReadReturn(r.status, r.totalPages, atqa)
                          /\ UNCHANGED page
                  ELSE IF piccType = "MIFARE_UL"
                  THEN /\ dataPages' = 0
                       /\ totalPages' = 0
                       /\ strAllPages' = <<>>
                       /\ pageReadStatus' = "FAILURE"
                       /\ printableUID' = [printableUID EXCEPT !.atqa = atqa]
                       /\ page' = 0
                       /\ pc' = "ul_read"
                       /\ result' = "none"
                       /\ log' = Detect(tag)
                       /\ UNCHANGED <<uid, pageReadSuccess>>
                  ELSE /\ dataPages' = 0
                       /\ totalPages' = 0
                       /\ strAllPages' = <<>>
                       /\ log' = Detect(tag) \o <<Halt>>
                       /\ ReadReturn("FAILURE", 0, atqa)
                       /\ UNCHANGED page

\* The burst reads of the Ultralight loop made so far.
Bursts(l) == {k \in 1..Len(l) : l[k].op = "MIFARE_Read"}

\* The capability container byte sets totalPages when the burst holds page 3.
CcTotalPages(tp, p, buffer) ==
    IF \E offset \in 0..3 : p + offset = 3
    THEN LET offset == 3 - p
             cc == buffer[4 * offset + 2 + 1]
         IN CASE cc = 18 -> 45
              [] cc = 62 -> 135
              [] cc = 109 -> 231
              [] OTHER -> tp
    ELSE tp

\* "page += 4" on the byte page.
NextPage(p) == Byte(p + 4)

\* One pass of "for (byte page = 0; page <= 252; page += 4)" of
\* read_mifare_ultralight_data_blocks; when the loop is left, the rest of
\* read_data_blocks and of read().
UlBurst ==
    /\ pc = "ul_read"
    /\ Cardinality(Bursts(log)) < MaxBursts
    /\ UNCHANGED <<tag, ops, lastOp, arg, pre>>
    /\ UNCHANGED storage
    /\ IF page <= 252
       THEN LET st == MIFARE_Read_UL(tag, page)
                buffer == BurstData(tag, page)
            IN /\ log' = Append(log, Call("MIFARE_Read", page, st, 0))
                             \o (IF st = "OK" THEN <<>> ELSE <<Halt>>)
               /\ IF st = "OK"
                  THEN /\ totalPages' = CcTotalPages(totalPages, page, buffer)
                       /\ strAllPages' =
                            AppendPages(strAllPages, dataPages,
                                [offset \in 1..4 |->
                                    SubSeq(buffer, 4 * (offset - 1) + 1, 4 * offset)])
                       /\ dataPages' = dataPages + 4
                       /\ page' = NextPage(page)
                       /\ UNCHANGED <<pc, uid, printableUID, pageReadStatus,
                                      pageReadSuccess, result>>
                  ELSE LET readStatus == IF st = "MIFARE_NACK" THEN "SUCCESS"
                                         ELSE "FAILURE"
                           dp == UlDataPages(readStatus, dataPages)
                           tp == UlTotalPages(totalPages, dp)
                       IN /\ dataPages' = dp
                          /\ totalPages' = tp
                          /\ ReadReturn(readStatus, tp, printableUID.atqa)
                          /\ UNCHANGED <<strAllPages, page>>
       ELSE LET dp == UlDataPages("SUCCESS", dataPages)
                tp == UlTotalPages(totalPages, dp)
            IN /\ dataPages' = dp
               /\ totalPages' = tp
               /\ log' = Append(log, Halt)
               /\ ReadReturn("SUCCESS", tp, printableUID.atqa)
               /\ UNCHANGED <<strAllPages, page>>

-----------------------------------------------------------------------------
(* RFID2::write, clone, erase, write_ndef and what they call.              *)

\* RFID2::write_mifare_classic_data_block(block, data), size being the
\* number of bytes of data: whether it returns true, and its transport calls.
ClassicBlockWrite(t, block, size, a) ==
    IF a.status # "SUCCESS" THEN [ok |-> FALSE, calls |-> <<AuthCall(a)>>]
    ELSE LET st == MIFARE_Write(t, AuthSector(a), Byte(block), Byte(size))
         IN [ok |-> st = "OK",
             calls |-> <<AuthCall(a), Call("MIFARE_Write", Byte(block), st, Byte(size))>>]

write_mifare_classic_data_block(t, block, size) ==
    The({ ClassicBlockWrite(t, block, size, a) :
            a \in {authenticate_mifare_classic(t, Byte(block))} })

\* RFID2::write_mifare_ultralight_data_block(block, data)
write_mifare_ultralight_data_block(t, block, size) ==
    LET st == MIFARE_Ultralight_Write(t, Byte(block), Byte(size))
    IN [ok |-> st = "OK",
        calls |-> <<Call("MIFARE_Ultralight_Write", Byte(block), st, Byte(size))>>]

\* A pass of a loop that makes no transport call and goes on ("continue").
Skip == [ok |-> TRUE, calls |-> <<>>]

\* Variant: the first pages of an Ultralight tag are written like the others.
WriteLine_NoReserved(t, piccType, dp, line) ==
    LET pageIndex == line.index
        size == Len(line.bytes)
    IN IF pageIndex = 0 THEN Skip
       ELSE IF IsClassic(piccType)
       THEN IF pageIndex = 0 \/ (pageIndex + 1) % 4 = 0 THEN Skip
            ELSE write_mifare_classic_data_block(t, pageIndex, size)
       ELSE IF piccType = "MIFARE_UL"
       THEN IF pageIndex >= dp - 5 THEN Skip
            ELSE write_mifare_ultralight_data_block(t, pageIndex, size)
       ELSE [ok |-> FALSE, calls |-> <<>>]

\* One pass of the loop of write_data_blocks, for the line taken from the
\* head of strAllPages; dp is dataPages.
WriteLine(t, piccType, dp, line) ==
    LET pageIndex == line.index
        size == Len(line.bytes)
    IN IF pageIndex = 0 THEN Skip
       ELSE IF IsClassic(piccType)
       THEN IF pageIndex = 0 \/ (pageIndex + 1) % 4 = 0 THEN Skip
            ELSE write_mifare_classic_data_block(t, pageIndex, size)
       ELSE IF piccType = "MIFARE_UL"
       THEN IF pageIndex < 4 \/ pageIndex >= dp - 5 THEN Skip
            ELSE write_mifare_ultralight_data_block(t, pageIndex, size)
       ELSE [ok |-> FALSE, calls |-> <<>>]

\* Variant: the loop goes on after a step that is not ok.
StepsDone_All(steps) == Len(steps)

\* A loop over steps that returns FAILURE at the first step that is not ok:
\* the status, the number of steps made and their transport calls.
LoopUntilFail(steps, done) ==
    [status |-> IF done > 0 /\ ~steps[done].ok THEN "FAILURE" ELSE "SUCCESS",
     done |-> done,
     calls |-> Flatten([k \in 1..Len(steps) |-> steps[k].calls], 1, done)]

StepsDone(steps) ==
    Min(FirstNot([k \in 1..Len(steps) |-> steps[k].ok]), Len(steps))

RunLoop(steps) ==
    The({ LoopUntilFail(steps, done) : done \in {StepsDone(steps)} })

\* RFID2::write_data_blocks: the lines are taken from strAllPages one by one.
write_data_blocks(t, piccType, dp, lines) ==
    The({ RunLoop(steps) :
            steps \in { SubSeq([k \in 1..Len(lines) |->
                                   WriteLine(t, piccType, dp, lines[k])],
                               1, Len(lines)) } })

\* RFID2::erase_data_blocks
ZeroBlockSize == 16
ZeroPageSize == 4

EraseClassicStep(t, i) ==
    IF (i + 1) % 4 = 0 THEN Skip
    ELSE write_mifare_classic_data_block(t, i, ZeroBlockSize)

erase_data_blocks(t, piccType) ==
    IF IsClassic(piccType)
    THEN The({ RunLoop(steps) :
                 steps \in { SubSeq([i \in 1..63 |-> EraseClassicStep(t, i)], 1, 63) } })
    ELSE IF piccType = "MIFARE_UL"
    THEN The({ RunLoop(steps) :
                 steps \in { SubSeq([k \in 1..126 |->
                                 write_mifare_ultralight_data_block(t, k + 3, ZeroPageSize)],
                                    1, 126) } })
    ELSE [status |-> "SUCCESS", done |-> 0, calls |-> <<>>]

\* RFID2::write_ndef_blocks, for a message of size byte messageSize.
NdefSize(messageSize) == Byte(messageSize + 3)

NdefPayloadSize(messageSize) ==
    LET ndef_size == NdefSize(messageSize)
    IN IF ndef_size % 4 = 0 THEN ndef_size ELSE Byte(ndef_size + (4 - (ndef_size % 4)))

write_ndef_blocks(t, piccType, messageSize) ==
    IF piccType # "MIFARE_UL"
    THEN [status |-> "TAG_NOT_MATCH", done |-> 0, calls |-> <<>>]
    ELSE The({ RunLoop(steps) :
                 steps \in { SubSeq([k \in 1..(NdefPayloadSize(messageSize) \div 4) |->
                                 write_mifare_ultralight_data_block(t, 4 + (k - 1), 4)],
                                    1, NdefPayloadSize(messageSize) \div 4) } })

\* Variant: the SAK of the tag is not compared.
SakMatches_Any(t, u) == TRUE

\* "mfrc522.uid.sak != uid.sak" of write and clone, negated.
SakMatches(t, u) == mfrc522_uid(t).sak = u.sak

\* Variant: no crypto-stop at the end.
EndSession_HaltOnly == <<Halt>>

\* "mfrc522.PICC_HaltA(); mfrc522.PCD_StopCrypto1();" at the end of write,
\* erase and write_ndef.
EndSession == <<Halt, StopCrypto1>>

\* The start of write, clone, erase and write_ndef.
Begin(op, a) ==
    /\ pc = "idle"
    /\ ops < MaxOps
    /\ ops' = ops + 1
    /\ lastOp' = op
    /\ arg' = a
    /\ pre' = [strAllPages |-> strAllPages, dataPages |-> dataPages]
    /\ UNCHANGED <<tag, page>>
    /\ UNCHANGED storage

Unchanged_session_but_dump ==
    UNCHANGED <<uid, printableUID, dataPages, totalPages, pageReadStatus,
                pageReadSuccess>>

Write ==
    /\ Begin("write", 0 - 1)
    /\ UNCHANGED pc
    /\ Unchanged_session_but_dump
    /\ IF ~Detected(tag)
       THEN /\ result' = "TAG_NOT_PRESENT"
            /\ log' = Detect(tag)
            /\ UNCHANGED strAllPages
       ELSE IF ~SakMatches(tag, uid)
       THEN /\ result' = "TAG_NOT_MATCH"
            /\ log' = Detect(tag)
            /\ UNCHANGED strAllPages
       ELSE \E r \in {write_data_blocks(tag, PICC_GetType(tag.sak), dataPages,
                                       strAllPages)} :
              /\ result' = r.status
              /\ log' = Detect(tag) \o r.calls \o EndSession
              /\ strAllPages' = SubSeq(strAllPages, r.done + 1, Len(strAllPages))

Clone ==
    /\ Begin("clone", 0 - 1)
    /\ UNCHANGED pc
    /\ UNCHANGED session
    /\ IF ~Detected(tag)
       THEN /\ result' = "TAG_NOT_PRESENT"
            /\ log' = Detect(tag)
       ELSE IF ~SakMatches(tag, uid)
       THEN /\ result' = "TAG_NOT_MATCH"
            /\ log' = Detect(tag)
       ELSE LET success == MIFARE_SetUid(tag, KeyFF)
            IN /\ result' = IF success THEN "SUCCESS" ELSE "FAILURE"
               /\ log' = Detect(tag)
                           \o <<Call("MIFARE_SetUid", 0,
                                     IF success THEN "OK" ELSE "ERROR",
                                     Len(uid.uidByte)), Halt>>

Erase ==
    /\ Begin("erase", 0 - 1)
    /\ UNCHANGED pc
    /\ UNCHANGED session
    /\ IF ~Detected(tag)
       THEN /\ result' = "TAG_NOT_PRESENT"
            /\ log' = Detect(tag)
       ELSE \E r \in {erase_data_blocks(tag, PICC_GetType(tag.sak))} :
              /\ result' = r.status
              /\ log' = Detect(tag) \o r.calls \o EndSession

\* The message sizes write_ndef is called with.
NdefSizes == {14, 253}

\* ndef_payload[payload_size] is filled at the indexes 0..messageSize+2: when
\* the 8-bit payload_size has wrapped, the bytes go outside the buffer.
NdefOverrun(messageSize) == NdefPayloadSize(messageSize) < messageSize + 3

\* A write outside the buffer is undefined behaviour: the operation either
\* goes on with the wrapped sizes or the program stops inside it.
WriteNdef(messageSize) ==
    /\ Begin("write_ndef", messageSize)
    /\ UNCHANGED session
    /\ IF ~Detected(tag)
       THEN /\ result' = "TAG_NOT_PRESENT"
            /\ log' = Detect(tag)
            /\ UNCHANGED pc
       ELSE \/ \E r \in {write_ndef_blocks(tag, PICC_GetType(tag.sak), messageSize)} :
                /\ result' = r.status
                /\ log' = Detect(tag) \o r.calls \o EndSession
                /\ UNCHANGED pc
            \/ /\ PICC_GetType(tag.sak) = "MIFARE_UL"
               /\ NdefOverrun(messageSize)
               /\ result' = "none"
               /\ log' = Detect(tag)
               /\ pc' = "crashed"

-----------------------------------------------------------------------------
(* RFID2::save, RFID2::load, RFID2::parse_data and the files of /BruceRFID. *)

Digits == <<"0", "1", "2", "3", "4", "5", "6", "7", "8", "9">>

\* String(i) of an int i >= 0: its decimal digits.
RECURSIVE Dec(_)
Dec(i) ==
    IF i < 10 THEN <<Digits[i + 1]>>
    ELSE Dec(i \div 10) \o <<Digits[(i % 10) + 1]>>

IsDigit(c) == \E v \in 1..10 : Digits[v] = c
DigitVal(c) == (CHOOSE v \in 1..10 : Digits[v] = c) - 1

\* String::toInt() of an unsigned text: the value of the leading digits, 0
\* if there is none.
RECURSIVE toIntLoop(_, _)
toIntLoop(str, acc) ==
    IF str = <<>> \/ ~IsDigit(Head(str)) THEN acc
    ELSE toIntLoop(Tail(str), 10 * acc + DigitVal(Head(str)))

toInt(str) == toIntLoop(str, 0)

IsHexDigit(c) == \E v \in 1..16 : HexDigits[v] = c \/ ToUpperChar(HexDigits[v]) = c
HexVal(c) ==
    (CHOOSE v \in 1..16 : HexDigits[v] = c \/ ToUpperChar(HexDigits[v]) = c) - 1

\* strtoul(str, NULL, 16): the value of the leading hex digits.
RECURSIVE strtoul16(_, _)
strtoul16(str, acc) ==
    IF str = <<>> \/ ~IsHexDigit(Head(str)) THEN acc
    ELSE strtoul16(Tail(str), 16 * acc + HexVal(Head(str)))

\* String::replace(" ", "")
RECURSIVE RemoveSpaces(_)
RemoveSpaces(str) ==
    IF str = <<>> THEN <<>>
    ELSE (IF Head(str) = " " THEN <<>> ELSE <<Head(str)>>) \o RemoveSpaces(Tail(str))

\* RFID2::parse_data: uid from the printable UID and SAK.
parse_data(p) ==
    LET strUID == RemoveSpaces(trim(p.uid))
    IN [sak |-> Byte(strtoul16(trim(p.sak), 0)),
        uidByte |-> [k \in 1..(Len(strUID) \div 2) |->
                        Byte(strtoul16(substring(strUID, 2 * (k - 1), 2 * k), 0))]]

\* A line of a file as println(prefix + " " + value) writes it: the text up
\* to the first colon, and the rest, which ends with a carriage return.  A
\* device type is one token of the rest.
TextLine(prefix, value) == [prefix |-> prefix, rest |-> <<" ">> \o value \o <<"\r">>]

\* A line without a colon.
PlainLine(text) == [prefix |-> text, rest |-> <<"\r">>]

\* A line of strAllPages as print(strAllPages) writes it and as load takes
\* it back whole.
PageTextLine(line) == [prefix |-> "Page ", rest |-> <<line>>]

Token(str) == IF str = "" THEN <<>> ELSE <<str>>
Untoken(value) == IF value = <<>> THEN "" ELSE value[1]

\* What save() prints.
Encode(p, dp, success, pages) ==
    << TextLine("Filetype:", <<"Bruce RFID File">>),
       PlainLine("Version 1"),
       TextLine("Device type:", Token(p.picc_type)),
       PlainLine("# UID, ATQA and SAK are common for all formats"),
       TextLine("UID:", p.uid),
       TextLine("SAK:", p.sak),
       TextLine("ATQA:", p.atqa),
       PlainLine("# Memory dump"),
       TextLine("Pages total:", Dec(dp)) >>
    \o (IF ~success THEN <<TextLine("Pages read:", Dec(dp))>> ELSE <<>>)
    \o [k \in 1..Len(pages) |-> PageTextLine(pages[k])]

\* The lines of text that start with prefix.
LinesWith(text, prefix) == {k \in 1..Len(text) : text[k].prefix = prefix}

\* strData of the last line that starts with prefix, old if there is none.
Field(text, prefix, old) ==
    IF LinesWith(text, prefix) = {} THEN old
    ELSE trim(text[CHOOSE k \in LinesWith(text, prefix) :
                      \A j \in LinesWith(text, prefix) : j <= k].rest)

\* The "Page " lines of text, in order.
RECURSIVE PageLinesOf(_, _, _)
PageLinesOf(text, lo, hi) ==
    IF lo > hi THEN <<>>
    ELSE IF lo = hi
    THEN (IF text[lo].prefix = "Page " THEN text[lo].rest ELSE <<>>)
    ELSE The({ PageLinesOf(text, lo, mid) \o PageLinesOf(text, mid + 1, hi) :
                 mid \in {(lo + hi) \div 2} })

\* The file name of the i-th try of save: filename, filename_1, filename_2 ...
NameI(filename, i) == IF i = 0 THEN filename ELSE filename \o <<"_">> \o Dec(i)

\* Variant: a taken name is followed by _1 without a further test.
SaveIndex_First(fs, filename) == IF filename \notin DOMAIN fs THEN 0 ELSE 1

\* The try at which save finds an unused name.
SaveIndex(fs, filename) ==
    IF filename \notin DOMAIN fs THEN 0
    ELSE CHOOSE i \in 1..(Cardinality(DOMAIN fs) + 1) :
            /\ NameI(filename, i) \notin DOMAIN fs
            /\ \A j \in 1..(i - 1) : NameI(filename, j) \in DOMAIN fs

\* The dump of the session.
Dump ==
    [printableUID |-> printableUID, uid |-> uid, dataPages |-> dataPages,
     totalPages |-> totalPages, pageReadSuccess |-> pageReadSuccess,
     strAllPages |-> strAllPages]

\* The directory holds at most this many files.
MaxFiles == 3

\* The names save is called with.
Name_tag1 == <<"t", "a", "g", "1">>
FileNames == {Name_tag1}

\* save(filename); mounted is what getFsStorage answers.
Save(filename, mounted) ==
    /\ pc = "idle"
    /\ ops < MaxOps
    /\ Cardinality(DOMAIN files) < MaxFiles
    /\ ops' = ops + 1
    /\ lastOp' = "save"
    /\ arg' = filename
    /\ pre' = [strAllPages |-> strAllPages, dataPages |-> dataPages]
    /\ UNCHANGED <<pc, tag, page>>
    /\ UNCHANGED session
    /\ IF ~mounted
       THEN /\ result' = "FAILURE"
            /\ log' = <<>>
            /\ UNCHANGED storage
       ELSE \E i \in {SaveIndex(files, filename)} :
              /\ log' = [k \in 1..(i + 1) |->
                           Call("exists", NameI(filename, k - 1),
                                IF NameI(filename, k - 1) \in DOMAIN files
                                THEN "TRUE" ELSE "FALSE", 0)]
                        \o <<Call("open", NameI(filename, i), "OK", 0)>>
              /\ files' = (NameI(filename, i) :>
                             Encode(printableUID, dataPages, pageReadSuccess,
                                    strAllPages)) @@ files
              /\ saved' = (NameI(filename, i) :> Dump) @@ saved
              /\ result' = "SUCCESS"

\* load(), the user choosing the file name in the file browser (no choice:
\* the empty name, which cannot be opened).
Load(name) ==
    /\ pc = "idle"
    /\ ops < MaxOps
    /\ ops' = ops + 1
    /\ lastOp' = "load"
    /\ arg' = name
    /\ pre' = [strAllPages |-> strAllPages, dataPages |-> dataPages]
    /\ UNCHANGED <<pc, tag, page>>
    /\ UNCHANGED storage
    /\ IF name \notin DOMAIN files
       THEN /\ result' = "FAILURE"
            /\ log' = <<Call("open", name, "FAILURE", 0)>>
            /\ UNCHANGED session
       ELSE \E text \in {files[name]} :
            \E p \in {[picc_type |-> Untoken(Field(text, "Device type:",
                                              Token(printableUID.picc_type))),
                       uid |-> Field(text, "UID:", printableUID.uid),
                       sak |-> Field(text, "SAK:", printableUID.sak),
                       atqa |-> Field(text, "ATQA:", printableUID.atqa),
                       bcc |-> printableUID.bcc]} :
              /\ result' = "SUCCESS"
              /\ log' = <<Call("open", name, "OK", 0)>>
              /\ strAllPages' = PageLinesOf(text, 1, Len(text))
              /\ pageReadSuccess' = (LinesWith(text, "Pages read:") = {})
              /\ dataPages' = IF LinesWith(text, "Pages total:") = {} THEN dataPages
                              ELSE toInt(Field(text, "Pages total:", <<>>))
              /\ printableUID' = p
              /\ uid' = parse_data(p)
              /\ UNCHANGED <<totalPages, pageReadStatus>>

\* A new RFID2 object is made (the menu is opened again); the files stay.
Construct ==
    /\ pc = "idle"
    /\ lastOp # "none"
    /\ pc' = "idle"
    /\ ops' = 0
    /\ uid' \in [sak : InitSaks, uidByte : {<<>>}]
    /\ printableUID' = [picc_type |-> "", uid |-> <<>>, sak |-> <<>>,
                        bcc |-> <<>>, atqa |-> <<>>]
    /\ dataPages' = 0
    /\ totalPages' = 0
    /\ pageReadStatus' = "FAILURE"
    /\ pageReadSuccess' = FALSE
    /\ strAllPages' = <<>>
    /\ page' = 0
    /\ lastOp' = "none"
    /\ arg' = 0 - 1
    /\ result' = "none"
    /\ log' = <<>>
    /\ pre' = [strAllPages |-> <<>>, dataPages |-> 0]
    /\ UNCHANGED tag
    /\ UNCHANGED storage

\* A dump file of a 1K tag as it may lie on the card: its second page line
\* has the index 256.
Name_card == <<"c", "a", "r", "d">>
CardFile ==
    Encode([picc_type |-> "MIFARE 1KB", uid |-> HexText(<<222, 173, 190, 239>>),
            sak |-> <<"0", "8">>, atqa |-> <<"0", "0", " ", "0", "4">>,
            bcc |-> <<"2", "2">>],
           64, TRUE,
           <<PageLine(1, [i \in 1..16 |-> i]), PageLine(256, [i \in 1..16 |-> 16 + i])>>)

-----------------------------------------------------------------------------
(* authenticate_mifare_classic called on its own, for every block address. *)

InitAuth ==
    /\ InitSession
    /\ tag \in AuthTags
    /\ files = <<>>
    /\ saved = <<>>

AuthenticateCall(block) ==
    /\ lastOp = "none"
    /\ \E a \in {authenticate_mifare_classic(tag, block)} :
       /\ lastOp' = "authenticate"
       /\ arg' = block
       /\ result' = a.status
       /\ log' = a.attempts
       /\ UNCHANGED <<pc, tag, ops, page, pre>>
       /\ UNCHANGED storage
       /\ UNCHANGED session

NextAuth == \E block \in 0..255 : AuthenticateCall(block)

SpecAuth == InitAuth /\ [][NextAuth]_vars

-----------------------------------------------------------------------------
(* read_mifare_classic_data_sector called on its own, for every sector     *)
(* number.                                                                 *)

ReadSectorCall(sector) ==
    /\ lastOp = "none"
    /\ \E r \in {read_mifare_classic_data_sector(tag, sector)} :
       /\ lastOp' = "readSector"
       /\ arg' = sector
       /\ result' = r.status
       /\ log' = r.calls
       /\ strAllPages' = AppendPages(strAllPages, dataPages, r.datas)
       /\ dataPages' = dataPages + Len(r.datas)
       /\ UNCHANGED storage
       /\ UNCHANGED <<pc, tag, ops, uid, printableUID, totalPages,
                      pageReadStatus, pageReadSuccess, page, pre>>

NextSector == \E sector \in 0..MaxSector : ReadSectorCall(sector)

SpecSector == InitAuth /\ [][NextSector]_vars

-----------------------------------------------------------------------------
(* The session: the user presents tags and calls the operations.           *)

Init ==
    /\ InitSession
    /\ tag = NoTag
    /\ files = (Name_card :> CardFile)
    /\ saved = <<>>

Next ==
    \/ \E t \in Tags : Present(t)
    \/ Read
    \/ UlBurst
    \/ Write
    \/ Clone
    \/ Erase
    \/ \E messageSize \in NdefSizes : WriteNdef(messageSize)
    \/ \E name \in DOMAIN files \cup {<<>>} : Load(name)

Spec == Init /\ [][Next]_vars

-----------------------------------------------------------------------------
(* save and load on one tag, with new objects made in between.             *)

CodecTags ==
    { Classic1K(KeyFF, KeyFF, NoSector, NoAddr, NoAddr),
      Classic1K(KeyFF, KeyFF, NoSector, 6, NoAddr),
      Ultralight(16, 0, NoAddr, NoAddr) }

InitCodec ==
    /\ InitSession
    /\ tag \in CodecTags
    /\ files \in {<<>>, (NameI(Name_tag1, 2) :> CardFile)}
    /\ saved = <<>>

NextCodec ==
    \/ Read
    \/ UlBurst
    \/ \E filename \in FileNames : \E mounted \in BOOLEAN : Save(filename, mounted)
    \/ \E name \in DOMAIN files \cup {<<>>} : Load(name)
    \/ Construct

SpecCodec == InitCodec /\ [][NextCodec]_vars

-----------------------------------------------------------------------------
(* Claims about authenticate_mifare_classic, under SpecAuth.               *)

\* The tag answers OK to row i of the dictionary offered as key type kt for
\* block trailerBlock.
Accepts(t, kt, trailerBlock, i) ==
    PCD_Authenticate(t, kt, trailerBlock, dict_keys[i + 1]) = "OK"

RejectsAll(t, trailerBlock) ==
    \A i \in 0..(Len(dict_keys) - 1) : \A kt \in {"A", "B"} :
        ~Accepts(t, kt, trailerBlock, i)

AuthReturned == lastOp = "authenticate"

\* C1: authenticate(block) on a tag that accepts no dictionary key returns
\* TagAuthError after exactly 160 transport authenticate calls, all failed.
C1_ExhaustionAfter160 ==
    (AuthReturned /\ RejectsAll(tag, log[1].addr))
        => /\ result = "TAG_AUTH_ERROR"
           /\ Len(log) = 160
           /\ \A k \in 1..Len(log) :
                log[k].op \in {"AUTH_KEY_A", "AUTH_KEY_B"} /\ log[k].st # "OK"

C1_Witness ==
    /\ AuthReturned
    /\ RejectsAll(tag, log[1].addr)
    /\ result = "TAG_AUTH_ERROR"
    /\ arg > 0

\* C2: the attempts go through the dictionary in order, each row as Key A
\* and then as Key B; the call returns Success at the first attempt the tag
\* accepts and makes no attempt after it; a tag whose Key A is the first row
\* is authenticated by 1 attempt.
C2_DictionaryOrderFirstSuccess ==
    AuthReturned =>
        /\ \A k \in 1..Len(log) :
             /\ log[k].n = (k - 1) \div 2
             /\ log[k].op = (IF k % 2 = 1 THEN "AUTH_KEY_A" ELSE "AUTH_KEY_B")
             /\ log[k].st = "OK" =>
                  (k = Len(log) /\ Accepts(tag, IF k % 2 = 1 THEN "A" ELSE "B",
                                           log[k].addr, (k - 1) \div 2))
             /\ log[k].st # "OK" =>
                  ~Accepts(tag, IF k % 2 = 1 THEN "A" ELSE "B",
                           log[k].addr, (k - 1) \div 2)
        /\ result = "SUCCESS" <=> log[Len(log)].st = "OK"
        /\ result \in {"SUCCESS", "TAG_AUTH_ERROR"}
        /\ ~RejectsAll(tag, log[1].addr) => result = "SUCCESS"
        /\ Accepts(tag, "A", log[1].addr, 0) => (result = "SUCCESS" /\ Len(log) = 1)

\* Success by a Key B attempt late in the dictionary.
C2_Witness ==
    /\ AuthReturned
    /\ result = "SUCCESS"
    /\ Len(log) > 100
    /\ log[Len(log)].op = "AUTH_KEY_B"

-----------------------------------------------------------------------------
(* Claims about readSector, under SpecSector.                              *)

\* The block address of the spec for sector s and offset.
BlockAddr(s, offset) ==
    IF s <= 31 THEN 4 * s + offset ELSE 128 + 16 * (s - 32) + offset

BlocksOf(s) == IF s <= 31 THEN 4 ELSE 16

\* The positions in log of the calls of the operations in names.
CallsOf(names) == {k \in 1..Len(log) : log[k].op \in names}

SectorReturned == lastOp = "readSector"

\* C7: readSector(s) reads the block addresses blockAddr(s, 0), blockAddr(s,
\* 1), ... in this order, all of them when it returns Success; every address
\* is in 0..255; for s >= 40 it returns Failure without any transport read.
C7_SectorBlockAddresses ==
    SectorReturned =>
        IF arg >= 40
        THEN result = "FAILURE" /\ CallsOf({"MIFARE_Read"}) = {}
        ELSE /\ \A k \in CallsOf({"MIFARE_Read"}) :
                  /\ k >= 2
                  /\ log[k].addr = BlockAddr(arg, k - 2)
                  /\ log[k].addr \in 0..255
                  /\ k - 2 < BlocksOf(arg)
             /\ \A k \in 2..Len(log) : log[k].op = "MIFARE_Read"
             /\ result = "SUCCESS" => Len(log) = 1 + BlocksOf(arg)
             /\ result \in {"SUCCESS", "FAILURE"}

\* The last large sector of a 4K tag is read in full, up to block 255.
C7_Witness ==
    /\ SectorReturned
    /\ arg = 39
    /\ result = "SUCCESS"
    /\ Len(log) = 17
    /\ log[17].addr = 255

-----------------------------------------------------------------------------
(* Claims about read(), under Spec.                                        *)

ReadReturned == lastOp = "read" /\ result # "none"

\* The accessor layer failed: the tag type has no accessor, or a transport
\* read was answered with an error.
AccessorFailed ==
    \/ PICC_GetType(tag.sak) \notin
          {"MIFARE_MINI", "MIFARE_1K", "MIFARE_4K", "MIFARE_UL"}
    \/ \E k \in CallsOf({"MIFARE_Read"}) : log[k].st \notin {"OK", "MIFARE_NACK"}

\* C3: read() returns TagNotPresent exactly when the detection or the
\* serial-number read fails; otherwise it returns Success, also when the
\* accessor layer failed, and the dump stored has its completeness flag true
\* exactly when the accessor's read status was Success.
C3_ReadLatchesStatus ==
    ReadReturned =>
        /\ result = "TAG_NOT_PRESENT" <=> ~Detected(tag)
        /\ Detected(tag) =>
             /\ result = "SUCCESS"
             /\ uid = [sak |-> tag.sak, uidByte |-> tag.uidb]
             /\ pageReadSuccess <=> (pageReadStatus = "SUCCESS")
             /\ pageReadSuccess <=> ~AccessorFailed
             /\ dataPages <= Len(strAllPages)

\* read() returned Success although every key of the dictionary was refused.
C3_Witness ==
    /\ ReadReturned
    /\ result = "SUCCESS"
    /\ ~pageReadSuccess
    /\ \E k \in CallsOf({"authenticate"}) : log[k].st = "TAG_AUTH_ERROR"

\* Every authentication and every block read of a read of a 1K tag succeeded.
FullRead1K ==
    /\ ReadReturned
    /\ result = "SUCCESS"
    /\ PICC_GetType(tag.sak) = "MIFARE_1K"
    /\ \A k \in CallsOf({"authenticate"}) : log[k].st = "SUCCESS"
    /\ \A k \in CallsOf({"MIFARE_Read"}) : log[k].st = "OK"

\* The blocks of a 1K tag that are neither block 0 nor a sector trailer.
DataBlocks1K == {b \in 1..63 : (b + 1) % 4 # 0}

\* C6 as stated: a full read of a 1K tag ends with totalPages = 64,
\* dataPages = 47, no trailer block read as data, completeness flag true.
C6_Original ==
    FullRead1K =>
        /\ totalPages = 64
        /\ dataPages = 47
        /\ \A k \in CallsOf({"MIFARE_Read"}) : log[k].addr \in DataBlocks1K
        /\ pageReadSuccess

\* C6, amended: a full read of a 1K tag ends with totalPages = 64 and
\* dataPages = 64: all 64 blocks, block 0 and the 16 trailer blocks
\* included, are read and captured in address order; the completeness flag
\* is true.
C6_FullRead1KCapturesAllBlocks ==
    FullRead1K =>
        /\ totalPages = 64
        /\ dataPages = 64
        /\ Len(strAllPages) = 64
        /\ \A k \in 1..Len(strAllPages) :
             /\ strAllPages[k].index = k - 1
             /\ strAllPages[k].bytes = BlockData(tag, k - 1)
        /\ {log[k].addr : k \in CallsOf({"MIFARE_Read"})} = 0..63
        /\ Cardinality(CallsOf({"MIFARE_Read"})) = 64
        /\ pageReadSuccess

C6_Witness ==
    /\ FullRead1K
    /\ dataPages = 64
    /\ \E k \in CallsOf({"MIFARE_Read"}) : log[k].addr = 63 /\ log[k].st = "OK"
    /\ strAllPages[1].index = 0

UlReadReturned == ReadReturned /\ Detected(tag) /\ PICC_GetType(tag.sak) = "MIFARE_UL"

\* The capability-container byte the tag answers with (page 3, offset 2).
CcByte == PageData(tag, 3)[3]

\* C9: after an Ultralight read the total page count is 45, 135 or 231 for
\* the capability-container bytes 0x12, 0x3E, 0x6D; for any other byte it is
\* the number of pages captured before the no-acknowledge, at most 252.
C9_TotalPagesByCapability ==
    (UlReadReturned /\ pageReadSuccess) =>
        /\ CcByte = 18 => totalPages = 45
        /\ CcByte = 62 => totalPages = 135
        /\ CcByte = 109 => totalPages = 231
        /\ CcByte \notin {18, 62, 109} =>
             (totalPages = Len(strAllPages) /\ totalPages <= 252)

\* C10: the Ultralight read makes at most 64 burst reads, at pages 0, 4, 8,
\* ..., 252 in increasing order, and the page counter never starts again at
\* page 0.
C10_BurstsBounded ==
    (lastOp = "read" /\ PICC_GetType(tag.sak) = "MIFARE_UL") =>
        /\ Cardinality(Bursts(log)) <= 64
        /\ \A j, k \in Bursts(log) : j < k => log[j].addr < log[k].addr
        /\ \A k \in Bursts(log) : log[k].addr % 4 = 0 /\ log[k].addr <= 252
        /\ pc = "ul_read" => page = 4 * Cardinality(Bursts(log))

-----------------------------------------------------------------------------
(* Claims about write(), clone(), erase() and write_ndef(), under Spec.    *)

DataWrites == {"MIFARE_Write", "MIFARE_Ultralight_Write", "MIFARE_SetUid"}

\* C4: write() and clone() on a presented tag whose SAK differs from the
\* stored one return TagMismatch without any data write to the tag.
C4_SakMismatchWritesNothing ==
    (lastOp \in {"write", "clone"} /\ Detected(tag) /\ tag.sak # uid.sak) =>
        /\ result = "TAG_NOT_MATCH"
        /\ CallsOf(DataWrites) = {}
        /\ strAllPages = pre.strAllPages

\* The dump of a 1K tag is offered to an Ultralight tag.
C4_Witness ==
    /\ lastOp = "write"
    /\ result = "TAG_NOT_MATCH"
    /\ PICC_GetType(uid.sak) = "MIFARE_1K"
    /\ PICC_GetType(tag.sak) = "MIFARE_UL"
    /\ Len(pre.strAllPages) = 64

WriteOps == {"write", "write_ndef", "erase", "clone"}

\* C5 as stated: write(), writeNdef(), erase() and clone() make both a halt
\* and a crypto-stop before they return, whatever they return.
C5_Original ==
    (lastOp \in WriteOps /\ result # "none") =>
        /\ CallsOf({"PICC_HaltA"}) # {}
        /\ CallsOf({"PCD_StopCrypto1"}) # {}

\* The operation returned before anything was done with the tag: no tag
\* was detected and selected, or the SAK check of write and clone failed.
EarlyReturn ==
    \/ ~Detected(tag)
    \/ lastOp \in {"write", "clone"} /\ tag.sak # uid.sak

\* C5, amended: write(), writeNdef() and erase() end with one halt followed
\* by one crypto-stop whenever a tag was detected and selected and, for
\* write, its SAK matched, whatever the data operations returned; clone()
\* then ends with a halt and no crypto-stop; an operation that returns
\* TagNotPresent, or TagMismatch from the SAK check of write or clone, makes
\* neither call.
C5_SessionEnd ==
    (lastOp \in WriteOps /\ result # "none") =>
        IF EarlyReturn
        THEN /\ result \in {"TAG_NOT_PRESENT", "TAG_NOT_MATCH"}
             /\ CallsOf({"PICC_HaltA", "PCD_StopCrypto1"}) = {}
        ELSE IF lastOp = "clone"
        THEN /\ CallsOf({"PICC_HaltA"}) = {Len(log)}
             /\ CallsOf({"PCD_StopCrypto1"}) = {}
        ELSE /\ CallsOf({"PICC_HaltA"}) = {Len(log) - 1}
             /\ CallsOf({"PCD_StopCrypto1"}) = {Len(log)}

\* A write that failed at a block still ends with halt and crypto-stop.
C5_Witness ==
    /\ lastOp = "write"
    /\ result = "FAILURE"
    /\ \E k \in CallsOf(DataWrites) : log[k].st # "OK"
    /\ log[Len(log)].op = "PCD_StopCrypto1"

\* write() went on to write_data_blocks for an Ultralight tag.
UlWrite ==
    /\ lastOp = "write"
    /\ ~EarlyReturn
    /\ PICC_GetType(tag.sak) = "MIFARE_UL"

\* The page indexes write_data_blocks writes of an Ultralight dump.
UlWritable(index) == index >= 4 /\ index < pre.dataPages - 5

\* C8: in a write() to an Ultralight tag a record with an index in 0..3 is
\* skipped: no transport write is made for it, the records after it are
\* still written, and write() returns Success unless a transport write
\* fails.
C8_ReservedPagesSkipped ==
    UlWrite =>
        /\ \A k \in CallsOf(DataWrites) :
             /\ log[k].op = "MIFARE_Ultralight_Write"
             /\ log[k].addr >= 4
        /\ (\A k \in CallsOf(DataWrites) : log[k].st = "OK") =>
             /\ result = "SUCCESS"
             /\ \A j \in 1..Len(pre.strAllPages) :
                  UlWritable(pre.strAllPages[j].index) =>
                     \E k \in CallsOf(DataWrites) :
                        log[k].addr = pre.strAllPages[j].index
        /\ result # "SUCCESS" =>
             \E k \in CallsOf(DataWrites) : log[k].st # "OK"

\* A dump holding the records 0..3 was written with Success.
C8_Witness ==
    /\ UlWrite
    /\ result = "SUCCESS"
    /\ \E j \in 1..Len(pre.strAllPages) : pre.strAllPages[j].index = 2
    /\ \E k \in CallsOf(DataWrites) : log[k].addr = 4 /\ log[k].st = "OK"

-----------------------------------------------------------------------------
(* Claims about erase, fail-fast writes, the trailer addressed by the      *)
(* authentication, and the page counts.                                    *)

\* The trailer block of the sector of the tag memory that block b lies in.
SectorTrailer(b) ==
    IF b < 128 THEN 4 * (b \div 4) + 3 ELSE 128 + 16 * ((b - 128) \div 16) + 15

\* The blocks of Classic tag t that are neither block 0 nor a trailer.
ClassicDataBlocks(t) == {b \in 1..(t.nblocks - 1) : b # SectorTrailer(b)}

\* C11: after erase returned Success on a Classic tag every block that is
\* neither block 0 nor a sector trailer holds 16 zero bytes, that is, 16
\* zero bytes were written to it with status OK.
C11_EraseZeroesEveryDataBlock ==
    (lastOp = "erase" /\ result = "SUCCESS" /\ Detected(tag)
        /\ IsClassic(PICC_GetType(tag.sak))) =>
        \A b \in ClassicDataBlocks(tag) :
            \E k \in CallsOf({"MIFARE_Write"}) :
                log[k].addr = b /\ log[k].st = "OK" /\ log[k].n = 16

\* The steps of a write operation that did not succeed.
FailedSteps ==
    {k \in 1..Len(log) :
        \/ log[k].op = "authenticate" /\ log[k].st # "SUCCESS"
        \/ log[k].op \in DataWrites /\ log[k].st # "OK"}

\* C14: in write(), erase() and writeNdef(), after the first step that does
\* not succeed no transport write (and no authentication) follows, the
\* operation returns Failure, and the writes made before it stay as they
\* are: nothing is written to their blocks again.
C14_FailFastWrites ==
    (lastOp \in {"write", "erase", "write_ndef"} /\ result # "none") =>
        \A k \in FailedSteps :
            /\ result = "FAILURE"
            /\ \A j \in CallsOf(DataWrites \cup {"authenticate"}) : j <= k
            /\ \A i, j \in CallsOf(DataWrites) :
                  (i < j) => log[i].addr # log[j].addr

\* erase() wrote blocks with OK, then a block write failed.
C14_Witness ==
    /\ lastOp = "erase"
    /\ result = "FAILURE"
    /\ \E k \in CallsOf(DataWrites) : log[k].st = "OK"
    /\ \E k \in CallsOf(DataWrites) : log[k].st # "OK" /\ k = Len(log) - 2

\* C15: every attempt of authenticate(block) addresses the trailer block of
\* the sector holding block: 4*s+3 in the sectors of 4 blocks, 128+16*(s-32)
\* +15 in the sectors of 16 blocks.
C15_AttemptsAddressTrailer ==
    (AuthReturned /\ arg < tag.nblocks) =>
        \A k \in 1..Len(log) : log[k].addr = SectorTrailer(arg)

\* C16: in a Classic read a failed authentication of a sector ends the
\* read: no block read and no other authentication follows it, and the
\* completeness flag is false.
C16_AuthFailureAbortsRead ==
    (lastOp = "read" /\ Detected(tag) /\ IsClassic(PICC_GetType(tag.sak))) =>
        \A k \in CallsOf({"authenticate"}) :
            log[k].st # "SUCCESS" =>
                /\ \A j \in CallsOf({"authenticate", "MIFARE_Read"}) : j <= k
                /\ ~pageReadSuccess

\* The total page count a capability-container byte declares.
DeclaredTotal(cc) ==
    CASE cc = 18 -> 45 [] cc = 62 -> 135 [] cc = 109 -> 231 [] OTHER -> 0

\* C18: write() to an Ultralight tag of declared total page count T writes
\* page p only for 4 <= p < T - 5, each time 4 bytes.
C18_LastFivePagesNeverWritten ==
    (UlWrite /\ CcByte \in {18, 62, 109}) =>
        \A k \in CallsOf(DataWrites) :
            /\ 4 <= log[k].addr
            /\ log[k].addr < DeclaredTotal(CcByte) - 5
            /\ log[k].n = 4

\* The smallest number of 4-byte pages that hold n bytes.
PagesFor(n) == (n + 3) \div 4

\* C19: writeNdef() with a message of size byte size on an Ultralight tag
\* that takes every write makes ceil((size+3)/4) page writes, at the pages
\* 4, 5, ... in this order, and returns Success; no length wraps and no byte
\* goes outside the buffer.
C19_NdefPageWrites ==
    (lastOp = "write_ndef" /\ Detected(tag)
        /\ PICC_GetType(tag.sak) = "MIFARE_UL"
        /\ \A k \in CallsOf(DataWrites) : log[k].st = "OK") =>
        /\ pc # "crashed"
        /\ result = "SUCCESS"
        /\ Cardinality(CallsOf(DataWrites)) = PagesFor(arg + 3)
        /\ \A k \in CallsOf(DataWrites) :
             log[k].addr = 4 + Cardinality({j \in CallsOf(DataWrites) : j < k})

\* C20: after a read with status Success dataPages is the number of page
\* records in the dump, also for an Ultralight tag, where the burst answered
\* with no-acknowledge adds no record.
C20_DataPagesCountsRecords ==
    (ReadReturned /\ Detected(tag) /\ pageReadStatus = "SUCCESS") =>
        dataPages = Len(strAllPages)

-----------------------------------------------------------------------------
(* Claims about save and load, under SpecCodec, and about the blocks a     *)
(* Classic write addresses, under Spec.                                    *)

SaveReturned == lastOp = "save" /\ result = "SUCCESS"

\* What save() prints for dump d.
EncodeDump(d) == Encode(d.printableUID, d.dataPages, d.pageReadSuccess, d.strAllPages)

\* C12: save(name) writes to name when no file has this name, otherwise to
\* name_i for the smallest i >= 1 that no file has; it never writes to a
\* name a file has already, so the files saved before keep their text.
C12_SaveFindsUnusedName ==
    SaveReturned =>
        LET n == Len(log)
        IN /\ n >= 2
           /\ log[n].op = "open"
           /\ log[n].addr = NameI(arg, n - 2)
           /\ \A k \in 1..(n - 1) :
                /\ log[k].op = "exists"
                /\ log[k].addr = NameI(arg, k - 1)
                /\ log[k].st = (IF k < n - 1 THEN "TRUE" ELSE "FALSE")
                /\ k < n - 1 => (log[k].addr \in DOMAIN files
                                 /\ log[k].addr # log[n].addr)
           /\ log[n].addr \in DOMAIN files
           /\ files[log[n].addr] = EncodeDump(Dump)
           /\ \A f \in DOMAIN saved : files[f] = EncodeDump(saved[f])

\* The third save of "tag1" writes tag1_2.
C12_Witness ==
    /\ SaveReturned
    /\ arg = Name_tag1
    /\ Len(log) = 4
    /\ log[4].addr = <<"t", "a", "g", "1", "_", "2">>
    /\ {Name_tag1, <<"t", "a", "g", "1", "_", "1">>} \subseteq DOMAIN saved

\* C13: loading a file that save() wrote for the dump of a tag gives the
\* same dump: device type, UID, SAK, BCC, ATQA, total page count, captured
\* page count, completeness flag and page records.
C13_SaveLoadRoundTrip ==
    (lastOp = "load" /\ result = "SUCCESS" /\ arg \in DOMAIN saved
        /\ saved[arg].printableUID.uid # <<>>) =>
        Dump = saved[arg]

\* C17: in write() and erase() on a Classic tag no transport block write
\* addresses block 0 or a block i with (i+1) % 4 = 0, and each transport
\* write follows a successful authentication of the sector of its block.
C17_ClassicWritesSpareBlock0AndTrailers ==
    (lastOp \in {"write", "erase"} /\ Detected(tag)
        /\ IsClassic(PICC_GetType(tag.sak))) =>
        \A k \in CallsOf({"MIFARE_Write"}) :
            /\ log[k].addr # 0
            /\ (log[k].addr + 1) % 4 # 0
            /\ k > 1
            /\ log[k - 1].op = "authenticate"
            /\ log[k - 1].st = "SUCCESS"
            /\ TagSector(log[k - 1].addr) = TagSector(log[k].addr)

-----------------------------------------------------------------------------
(* Claims about what write() and a read() without a tag leave of the       *)
(* session, under Spec.                                                    *)

\* C21: write() leaves the dump of the session as it found it: when it has
\* returned, with whatever result, the page lines held are the page lines
\* held before the call (so that a second write() has the same lines to
\* write).
C21_WriteKeepsDump ==
    (lastOp = "write" /\ result # "none") =>
        /\ strAllPages = pre.strAllPages
        /\ dataPages = pre.dataPages

\* C22: a read() that returns TagNotPresent leaves device type, UID, SAK,
\* BCC, ATQA, the page counts, the completeness flag and the page lines as
\* they were in a session that holds a dump, so that save() prints after it
\* the text it would have printed before it.
C22_FailedReadKeepsDump ==
    [][(lastOp' = "read" /\ result' = "TAG_NOT_PRESENT"
            /\ printableUID.uid # <<>>) =>
          /\ UNCHANGED <<uid, printableUID, dataPages, totalPages,
                         pageReadSuccess, strAllPages>>
          /\ Encode(printableUID', dataPages', pageReadSuccess', strAllPages')
               = Encode(printableUID, dataPages, pageReadSuccess, strAllPages)
      ]_vars

====
